---- MODULE Spec2Model ----
(***************************************************************************)
(* Roster-attestation service: the watchtower's authenticated append-only  *)
(* log (crates/watchtower), the party-side verifier and roster             *)
(* (crates/party), the party's gossip equivocation detector and the shared *)
(* encoding, signature and Merkle code (crates/common).                    *)
(*                                                                         *)
(* Byte strings are sequences of naturals.  SHA-256 is modelled as a       *)
(* collision-free function: the digest of b is the length-prefixed b, so   *)
(* that two digests are equal exactly when their preimages are and the     *)
(* concatenation of two digests can be split again (as that of two 32-byte *)
(* values can).  An Ed25519 signature by sk over h is the pair (public key *)
(* of sk, h): it verifies under exactly that key and that message.         *)
(***************************************************************************)
EXTENDS Integers, Sequences, FiniteSets, TLC

VARIABLES
    epoch,      \* WatchtowerState.epoch
    log,        \* WatchtowerState.log
    last_seq,   \* WatchtowerState.last_seq : party_id -> seq
    lock,       \* holder of AppState.inner (the Mutex), NoThread when free
    pc,         \* per handler task: the step it is at
    req,        \* per handler task: the request it serves
    loc,        \* per handler task: snapshot()'s local k
    pre,        \* per handler task: (log, last_seq) when it took the lock
    resp,       \* per handler task: the response it is returning
    issued,     \* every SRS signed so far, with the log it was built from
    st,         \* the party's PartyStateFile (in memory)
    ppc,        \* the party's position in full_sync_and_verify
    f_srs,      \* full_sync_and_verify's local srs
    f_entries,  \* full_sync_and_verify's local entries
    sync_err,   \* how the party's last operation ended
    net,        \* whether the fetched srs / entries are the watchtower's own
    st0,        \* the party state when its current operation began
    applied,    \* every record handed to apply_prrs so far
    last,       \* GossipState.last : the slot, <<>> for None
    glock,      \* holder of the Mutex around last, NoThread when free
    gpc,        \* per gossip task: the step it is at
    greq,       \* per gossip task: the srs of the request it serves
    gresp,      \* per gossip task: the response it is returning
    ghist,      \* the gossip requests answered so far, in order
    m_leaves,   \* the leaves handed to merkle_root
    m_root,     \* what merkle_root returned for them
    m_prev,     \* what merkle_root returned for the leaves without the last
    r_list,     \* the list last handed to apply_prrs
    r_first,    \* the party state after that list's first application
    r_phase,    \* how often that list has been applied
    file,       \* the party's state file: <<>> when absent, else <<state>>
    cmd,        \* the party command that is running, NoCmd when none is
    cpc,        \* the step the running command is at
    stored,     \* the two snapshots most recently stored as current_srs
    reg_out,    \* seq and outcome of the party's latest POST /register
    verified,   \* the snapshot the running command has verified last, as a set
    connected,  \* Command::Run: the peers marked connected
    to_probe,   \* Command::Run: the peers still to probe in this tick
    probed,     \* Command::Run: probes made per peer in this tick
    conn0,      \* Command::Run: connected as it was when the tick began
    up,         \* the peers whose handshake would succeed now
    v_out       \* what the latest direct call of the verifier returned

wvars == <<epoch, log, last_seq, issued>>
tvars == <<lock, pc, req, loc, pre, resp>>
pvars == <<st, ppc, f_srs, f_entries, sync_err, net, st0, applied>>
gvars == <<last, glock, gpc, greq, gresp, ghist>>
mvars == <<m_leaves, m_root, m_prev>>
rvars == <<r_list, r_first, r_phase>>
loopvars == <<connected, to_probe, probed, conn0>>
cvars == <<file, cmd, cpc, stored, reg_out, verified, loopvars, up>>
vvars == <<v_out>>
evars == <<gvars, mvars, rvars, cvars, vvars>>

vars == <<wvars, tvars, pvars, evars>>

----------------------------------------------------------------------------
(* Bounds and input universes *)

\* Longest watchtower log explored.
MaxLog == 3

\* Handler tasks the runtime runs at once.
NThreads == 2

\* Config::epoch default (watchtower/src/config.rs).
DefaultEpoch == 1

Threads == 1..NThreads
NoThread == 0

PartyIds == {1, 2}
Seqs == {0, 1, 2}
\* Endpoint.addr strings, as character sequences of different lengths.
Endpoints == {<<7>>, <<7, 9>>}
Nonces == {5}

\* Signing keys: one per party, one for the watchtower.
PartySk(p) == p
WatchtowerSk == 9
SigningKeys == {PartySk(p) : p \in PartyIds} \cup {WatchtowerSk}

----------------------------------------------------------------------------
(* crates/common/src/crypto.rs *)

\* SigningKey::verifying_key
verifying_key(sk) == 10 + sk

VerifyingKeys == {verifying_key(sk) : sk \in SigningKeys}

\* 32 bytes that are no valid point encoding.
InvalidPkBytes == 0

sha256(data) == <<Len(data)>> \o data

\* bincode of a string: u64 length, then the bytes.
enc_string(s) == <<Len(s)>> \o s

\* bincode of RegistrationMessage: the fields in declaration order.
enc_registration(m) ==
    <<m.epoch, m.party_id>> \o enc_string(m.endpoint)
        \o <<m.pk_party, m.seq, m.nonce>>

\* bincode of SnapshotMessage.
enc_snapshot(m) == <<m.epoch, m.log_len>> \o m.merkle_root

\* bincode of PartyRegistrationRecord: msg, then the 64 signature bytes.
enc_prr(prr) == enc_registration(prr.msg) \o prr.sig_party

\* Ed25519 signature by sk over the digest h.
ed25519_sign(sk, h) == <<verifying_key(sk)>> \o h

sign_struct(sk, bytes) == ed25519_sign(sk, sha256(bytes))

\* verify_strict: TRUE for Ok(()).
verify_struct(pk, bytes, sig) == sig = <<pk>> \o sha256(bytes)

\* TRUE when VerifyingKey::from_bytes accepts the bytes.
verifying_key_from_bytes(pk) == pk \in VerifyingKeys

----------------------------------------------------------------------------
(* crates/common/src/merkle.rs *)

leaf_hash(leaf_bytes) == sha256(leaf_bytes)

hash_node_swapped(a, b) == sha256(b \o a)

hash_node(a, b) == sha256(a \o b)

\* One pass of the while loop body: duplicate the last node of an odd level,
\* then hash the chunks of two.
merkle_level_drop_odd(leaves) ==
    [i \in 1..(Len(leaves) \div 2) |->
        hash_node(leaves[2 * i - 1], leaves[2 * i])]

merkle_level(leaves) ==
    LET padded == IF Len(leaves) % 2 = 1
                  THEN Append(leaves, leaves[Len(leaves)])
                  ELSE leaves
    IN  [i \in 1..(Len(padded) \div 2) |->
            hash_node(padded[2 * i - 1], padded[2 * i])]

RECURSIVE merkle_loop(_)
merkle_loop(leaves) ==
    IF Len(leaves) > 1 THEN merkle_loop(merkle_level(leaves)) ELSE leaves[1]

merkle_root(leaves) ==
    IF leaves = <<>> THEN sha256(<<>>) ELSE merkle_loop(leaves)

----------------------------------------------------------------------------
(* Registration records the parties (and a tampering client) can submit *)

RegistrationMessageOf(e, p, ep, pk, s, n) ==
    [epoch |-> e, party_id |-> p, endpoint |-> ep, pk_party |-> pk,
     seq |-> s, nonce |-> n]

\* register_self's record: the message signed with the party's own key.
SignedPRR(m, sk) ==
    [msg |-> m, sig_party |-> sign_struct(sk, enc_registration(m))]

\* The endpoints a party registers: party 1 moves between the two, the
\* others stay at the first.
EndpointsOf(p) == IF p = 1 THEN Endpoints ELSE {<<7>>}

HonestMsgs ==
    UNION {{RegistrationMessageOf(DefaultEpoch, p, ep, verifying_key(PartySk(p)), s, n) :
                ep \in EndpointsOf(p), s \in Seqs, n \in Nonces} : p \in PartyIds}

HonestPRRs == {SignedPRR(m, PartySk(m.party_id)) : m \in HonestMsgs}

OtherSk(p) == PartySk(CHOOSE q \in PartyIds : q # p)

\* 64 bytes that are nobody's signature.
GarbageSig == <<0>>

\* Records that differ from an honest one in one respect: another epoch,
\* an unparsable key, a signature by another key, a garbage signature.
TamperBase == {m \in HonestMsgs : m.seq = 1 /\ Len(m.endpoint) = 1}

TamperedPRRs ==
    {SignedPRR([m EXCEPT !.epoch = DefaultEpoch + 1], PartySk(m.party_id)) :
        m \in TamperBase}
    \cup {SignedPRR([m EXCEPT !.pk_party = InvalidPkBytes], PartySk(m.party_id)) :
        m \in TamperBase}
    \cup {SignedPRR(m, OtherSk(m.party_id)) : m \in TamperBase}
    \cup {[msg |-> m, sig_party |-> GarbageSig] : m \in TamperBase}

RegisterRequests == HonestPRRs \cup TamperedPRRs

----------------------------------------------------------------------------
(* crates/watchtower/src/state.rs *)

NoSrs ==
    [msg |-> [epoch |-> 0, log_len |-> 0, merkle_root |-> <<>>],
     sig_watchtower |-> <<>>]

\* register, lines 68-90: the checks, in order; "ok" when all pass.
register_check_accept_equal(ep, ls, prr) ==
    IF prr.msg.epoch # ep THEN "EpochMismatch"
    ELSE IF ~verifying_key_from_bytes(prr.msg.pk_party) THEN "BadKey"
    ELSE IF ~verify_struct(prr.msg.pk_party, enc_registration(prr.msg), prr.sig_party)
         THEN "BadSignature"
    ELSE IF prr.msg.party_id \in DOMAIN ls /\ prr.msg.seq < ls[prr.msg.party_id]
         THEN "NonMonotonicSeq"
    ELSE "ok"

register_check_first_seq_one(ep, ls, prr) ==
    IF prr.msg.epoch # ep THEN "EpochMismatch"
    ELSE IF ~verifying_key_from_bytes(prr.msg.pk_party) THEN "BadKey"
    ELSE IF ~verify_struct(prr.msg.pk_party, enc_registration(prr.msg), prr.sig_party)
         THEN "BadSignature"
    ELSE IF prr.msg.party_id \in DOMAIN ls /\ prr.msg.seq <= ls[prr.msg.party_id]
         THEN "NonMonotonicSeq"
    ELSE IF prr.msg.party_id \notin DOMAIN ls /\ prr.msg.seq # 1
         THEN "NonMonotonicSeq"
    ELSE "ok"

register_check(ep, ls, prr) ==
    IF prr.msg.epoch # ep THEN "EpochMismatch"
    ELSE IF ~verifying_key_from_bytes(prr.msg.pk_party) THEN "BadKey"
    ELSE IF ~verify_struct(prr.msg.pk_party, enc_registration(prr.msg), prr.sig_party)
         THEN "BadSignature"
    ELSE IF prr.msg.party_id \in DOMAIN ls /\ prr.msg.seq <= ls[prr.msg.party_id]
         THEN "NonMonotonicSeq"
    ELSE "ok"

\* HashMap::insert, line 92.
last_seq_insert_keep_first(ls, pid, seq) ==
    [p \in DOMAIN ls \cup {pid} |-> IF p \in DOMAIN ls THEN ls[p] ELSE seq]

last_seq_insert(ls, pid, seq) ==
    [p \in DOMAIN ls \cup {pid} |-> IF p = pid THEN seq ELSE ls[p]]

\* Vec::push, line 93.
log_push_front(lg, prr) == <<prr>> \o lg

log_push_update(lg, prr) ==
    IF \E i \in 1..Len(lg) : lg[i].msg.party_id = prr.msg.party_id
    THEN [i \in 1..Len(lg) |->
            IF lg[i].msg.party_id = prr.msg.party_id THEN prr ELSE lg[i]]
    ELSE Append(lg, prr)

log_push_rotate(lg, prr) == IF Len(lg) >= 2 THEN <<prr>> ELSE Append(lg, prr)

log_push(lg, prr) == Append(lg, prr)

\* snapshot, lines 101-107: the leaves of the log, in log order.
log_leaves(lg) == [i \in 1..Len(lg) |-> leaf_hash(enc_prr(lg[i]))]

\* snapshot, lines 107-116, with k as read at line 99.
snapshot_of(ep, k, lg) ==
    LET msg == [epoch |-> ep, log_len |-> k,
                merkle_root |-> merkle_root(log_leaves(lg))]
    IN  [msg |-> msg,
         sig_watchtower |-> sign_struct(WatchtowerSk, enc_snapshot(msg))]

snapshot(ep, lg) == snapshot_of(ep, Len(lg), lg)

\* entries: the error, or the slice.
entries_exclusive_end(lg, from, to) ==
    IF from = 0 \/ to = 0 \/ from > to THEN [ok |-> FALSE, entries |-> <<>>]
    ELSE IF to > Len(lg) THEN [ok |-> FALSE, entries |-> <<>>]
    ELSE [ok |-> TRUE, entries |-> SubSeq(lg, from, to - 1)]

entries_from_not_shifted(lg, from, to) ==
    IF from = 0 \/ to = 0 \/ from > to THEN [ok |-> FALSE, entries |-> <<>>]
    ELSE IF to > Len(lg) THEN [ok |-> FALSE, entries |-> <<>>]
    ELSE [ok |-> TRUE, entries |-> SubSeq(lg, from + 1, to)]

entries_latest(lg, from, to) ==
    IF from = 0 \/ to = 0 \/ from > to THEN [ok |-> FALSE, entries |-> <<>>]
    ELSE IF to > Len(lg) THEN [ok |-> FALSE, entries |-> <<>>]
    ELSE [ok |-> TRUE, entries |-> SubSeq(lg, Len(lg) - (to - from), Len(lg))]

entries(lg, from, to) ==
    IF from = 0 \/ to = 0 \/ from > to THEN [ok |-> FALSE, entries |-> <<>>]
    ELSE IF to > Len(lg) THEN [ok |-> FALSE, entries |-> <<>>]
    ELSE [ok |-> TRUE, entries |-> SubSeq(lg, from, to)]

watchtower_pubkey_bytes == verifying_key(WatchtowerSk)

----------------------------------------------------------------------------
(* crates/watchtower/src/api.rs: the handlers, each under the Mutex.       *)
(* A handler takes the lock, runs the WatchtowerState method, builds its   *)
(* response, and drops the guard when it returns.                          *)

NoReq == [kind |-> "none", prr |-> CHOOSE r \in HonestPRRs : TRUE, from |-> 0, to |-> 0]
NoPre == [log |-> <<>>, last_seq |-> <<>>]
NoResp ==
    [kind |-> "none", status |-> 0, err |-> "", srs |-> NoSrs, entries |-> <<>>,
     pk |-> 0, req |-> NoReq, pre |-> NoPre]

\* st.inner.lock(): the caller proceeds only while no other task holds it.
MutexNotHeld == TRUE

MutexFree == lock = NoThread

\* The runtime's tasks are interchangeable: a request goes to the first idle one.
Idle(t) == pc[t] = "idle" /\ \A u \in Threads : u < t => pc[u] # "idle"

\* let guard = st.inner.lock().unwrap()
Take(t, r, step) ==
    /\ Idle(t)
    /\ MutexFree
    /\ lock' = t
    /\ pc' = [pc EXCEPT ![t] = step]
    /\ req' = [req EXCEPT ![t] = r]
    /\ pre' = [pre EXCEPT ![t] = [log |-> log, last_seq |-> last_seq]]

\* The match arm that builds the handler's response.
Respond(t, r) ==
    /\ resp' = [resp EXCEPT ![t] = [r EXCEPT !.req = req[t], !.pre = pre[t]]]
    /\ pc' = [pc EXCEPT ![t] = "respond"]

\* The handler returns: the guard is dropped and the response leaves it.
Return(t) ==
    /\ pc[t] = "respond"
    /\ lock' = IF lock = t THEN NoThread ELSE lock
    /\ pc' = [pc EXCEPT ![t] = "idle"]
    /\ req' = [req EXCEPT ![t] = NoReq]
    /\ loc' = [loc EXCEPT ![t] = 0]
    /\ pre' = [pre EXCEPT ![t] = NoPre]
    /\ resp' = [resp EXCEPT ![t] = NoResp]
    /\ UNCHANGED <<evars, pvars, epoch, log, last_seq, issued>>

\* POST /register: lock, then WatchtowerState::register.
RegisterLock(t, prr) ==
    /\ Len(log) < MaxLog \/ register_check(epoch, last_seq, prr) # "ok"
    /\ Take(t, [NoReq EXCEPT !.kind = "register", !.prr = prr], "reg_check")
    /\ UNCHANGED <<evars, pvars, epoch, log, last_seq, loc, resp, issued>>

\* register, lines 68-90; a failure is answered 400.
RegisterValidateInsertFirst(t) ==
    /\ pc[t] = "reg_check"
    /\ LET r == register_check(epoch, last_seq, req[t].prr)
       IN  IF r # "ok"
           THEN /\ Respond(t, [NoResp EXCEPT !.kind = "register", !.status = 400,
                                   !.err = r])
                /\ last_seq' = last_seq_insert(last_seq, req[t].prr.msg.party_id,
                                               req[t].prr.msg.seq)
                /\ UNCHANGED <<evars, pvars, epoch, log, lock, req, loc, pre, issued>>
           ELSE /\ pc' = [pc EXCEPT ![t] = "reg_insert"]
                /\ UNCHANGED <<evars, pvars, epoch, log, last_seq, lock, req, loc, pre, resp, issued>>

RegisterValidate(t) ==
    /\ pc[t] = "reg_check"
    /\ LET r == register_check(epoch, last_seq, req[t].prr)
       IN  IF r # "ok"
           THEN /\ Respond(t, [NoResp EXCEPT !.kind = "register", !.status = 400,
                                   !.err = r])
                /\ UNCHANGED <<evars, pvars, epoch, log, last_seq, lock, req, loc, pre, issued>>
           ELSE /\ pc' = [pc EXCEPT ![t] = "reg_insert"]
                /\ UNCHANGED <<evars, pvars, epoch, log, last_seq, lock, req, loc, pre, resp, issued>>

\* register, line 92.
RegisterInsertUnlock(t) ==
    /\ pc[t] = "reg_insert"
    /\ last_seq' = last_seq_insert(last_seq, req[t].prr.msg.party_id,
                                   req[t].prr.msg.seq)
    /\ pc' = [pc EXCEPT ![t] = "reg_push"]
    /\ lock' = NoThread
    /\ UNCHANGED <<evars, pvars, epoch, log, req, loc, pre, resp, issued>>

RegisterInsert(t) ==
    /\ pc[t] = "reg_insert"
    /\ last_seq' = last_seq_insert(last_seq, req[t].prr.msg.party_id,
                                   req[t].prr.msg.seq)
    /\ pc' = [pc EXCEPT ![t] = "reg_push"]
    /\ UNCHANGED <<evars, pvars, epoch, log, lock, req, loc, pre, resp, issued>>

\* register, line 93; line 95 then runs snapshot.
RegisterPush(t) ==
    /\ pc[t] = "reg_push"
    /\ log' = log_push(log, req[t].prr)
    /\ pc' = [pc EXCEPT ![t] = "snap_len"]
    /\ UNCHANGED <<evars, pvars, epoch, last_seq, lock, req, loc, pre, resp, issued>>

\* GET /snapshot: lock, then WatchtowerState::snapshot.
SnapshotLock(t) ==
    /\ Take(t, [NoReq EXCEPT !.kind = "snapshot"], "snap_len")
    /\ UNCHANGED <<evars, pvars, epoch, log, last_seq, loc, resp, issued>>

\* snapshot, line 99.
SnapshotLen(t) ==
    /\ pc[t] = "snap_len"
    /\ loc' = [loc EXCEPT ![t] = Len(log)]
    /\ pc' = [pc EXCEPT ![t] = "snap_root"]
    /\ UNCHANGED <<evars, pvars, epoch, log, last_seq, lock, req, pre, resp, issued>>

\* snapshot, lines 101-116, and the 200 response of /snapshot or /register.
SnapshotSign(t) ==
    /\ pc[t] = "snap_root"
    /\ LET srs == snapshot_of(epoch, loc[t], log)
       IN  /\ Respond(t, [NoResp EXCEPT !.kind = req[t].kind, !.status = 200,
                              !.srs = srs])
           /\ issued' = issued \cup {[srs |-> srs, log |-> log]}
    /\ UNCHANGED <<evars, pvars, epoch, log, last_seq, lock, req, loc, pre>>

\* GET /entries?from=F&to=T: lock, WatchtowerState::entries, respond.
EntriesHandler(t, from, to) ==
    /\ Take(t, [NoReq EXCEPT !.kind = "entries", !.from = from, !.to = to], "respond")
    /\ LET r == entries(log, from, to)
       IN  resp' = [resp EXCEPT ![t] =
                [NoResp EXCEPT !.kind = "entries",
                     !.status = IF r.ok THEN 200 ELSE 400,
                     !.entries = r.entries,
                     !.req = [NoReq EXCEPT !.kind = "entries", !.from = from, !.to = to],
                     !.pre = [log |-> log, last_seq |-> last_seq]]]
    /\ UNCHANGED <<evars, pvars, epoch, log, last_seq, loc, issued>>

\* GET /watchtower_pubkey: lock, read pk_w, respond.
PubkeyHandler(t) ==
    /\ Take(t, [NoReq EXCEPT !.kind = "pubkey"], "respond")
    /\ resp' = [resp EXCEPT ![t] =
            [NoResp EXCEPT !.kind = "pubkey", !.status = 200,
                 !.pk = watchtower_pubkey_bytes,
                 !.req = [NoReq EXCEPT !.kind = "pubkey"],
                 !.pre = [log |-> log, last_seq |-> last_seq]]]
    /\ UNCHANGED <<evars, pvars, epoch, log, last_seq, loc, issued>>

\* WatchtowerState::load_or_create: an empty log and map.
WatchtowerInit ==
    /\ epoch = DefaultEpoch
    /\ log = <<>>
    /\ last_seq = <<>>
    /\ lock = NoThread
    /\ pc = [t \in Threads |-> "idle"]
    /\ req = [t \in Threads |-> NoReq]
    /\ loc = [t \in Threads |-> 0]
    /\ pre = [t \in Threads |-> NoPre]
    /\ resp = [t \in Threads |-> NoResp]
    /\ issued = {}

\* The from and to a client asks for: around the ends of the log.
EntryBounds == {0, 1, Len(log), Len(log) + 1}

Next ==
    \/ \E t \in Threads, prr \in RegisterRequests : RegisterLock(t, prr)
    \/ \E t \in Threads : RegisterValidate(t)
    \/ \E t \in Threads : RegisterInsert(t)
    \/ \E t \in Threads : RegisterPush(t)
    \/ \E t \in Threads : SnapshotLock(t)
    \/ \E t \in Threads : SnapshotLen(t)
    \/ \E t \in Threads : SnapshotSign(t)
    \/ \E t \in Threads, from \in EntryBounds, to \in EntryBounds :
          EntriesHandler(t, from, to)
    \/ \E t \in Threads : PubkeyHandler(t)
    \/ \E t \in Threads : Return(t)

----------------------------------------------------------------------------
(* crates/party/src/state.rs *)

\* base64 of the key bytes: its 6-bit digits.
b64_encode(pk) == <<pk \div 64, pk % 64>>

\* PartyStateFile::new
PartyStateFile_new(e, p) ==
    [epoch |-> e, party_id |-> p, next_seq |-> 1, current_srs |-> <<>>,
     last_log_len |-> 0, roster |-> <<>>, last_entries_count |-> 0]

RosterEntry(prr) ==
    [endpoint |-> prr.msg.endpoint, pk_party_b64 |-> b64_encode(prr.msg.pk_party),
     seq |-> prr.msg.seq]

\* apply_prrs, lines 69-88: the loop body for one record.
apply_prr_or_equal(roster, prr) ==
    LET pid == prr.msg.party_id
        should_update == IF pid \notin DOMAIN roster THEN TRUE
                         ELSE prr.msg.seq >= roster[pid].seq
    IN  IF should_update
        THEN [q \in DOMAIN roster \cup {pid} |->
                IF q = pid THEN RosterEntry(prr) ELSE roster[q]]
        ELSE roster

apply_prr_successor_only(roster, prr) ==
    LET pid == prr.msg.party_id
        should_update == IF pid \notin DOMAIN roster THEN TRUE
                         ELSE prr.msg.seq = roster[pid].seq + 1
    IN  IF should_update
        THEN [q \in DOMAIN roster \cup {pid} |->
                IF q = pid THEN RosterEntry(prr) ELSE roster[q]]
        ELSE roster

apply_prr(roster, prr) ==
    LET pid == prr.msg.party_id
        should_update == IF pid \notin DOMAIN roster THEN TRUE
                         ELSE prr.msg.seq > roster[pid].seq
    IN  IF should_update
        THEN [q \in DOMAIN roster \cup {pid} |->
                IF q = pid THEN RosterEntry(prr) ELSE roster[q]]
        ELSE roster

RECURSIVE apply_loop(_, _, _)
apply_loop(roster, prrs, i) ==
    IF i > Len(prrs) THEN roster
    ELSE apply_loop(apply_prr(roster, prrs[i]), prrs, i + 1)

\* PartyStateFile::apply_prrs
apply_prrs(s, prrs) ==
    [s EXCEPT !.roster = apply_loop(s.roster, prrs, 1),
              !.last_entries_count = Len(prrs)]

----------------------------------------------------------------------------
(* crates/party/src/client.rs *)

Verdict(e, i) == [err |-> e, at |-> i]

EntryKeyOk(prr) == verifying_key_from_bytes(prr.msg.pk_party)
EntrySigOk(prr) ==
    verify_struct(prr.msg.pk_party, enc_registration(prr.msg), prr.sig_party)

\* The loop of lines 92-98: the first entry whose key or signature fails.
FirstBadEntry(full_log) ==
    LET bad == {i \in 1..Len(full_log) :
                    ~EntryKeyOk(full_log[i]) \/ ~EntrySigOk(full_log[i])}
    IN  IF bad = {} THEN 0 ELSE CHOOSE i \in bad : \A j \in bad : i <= j

verify_snapshot_and_log_no_length(pk_w, srs, full_log) ==
    IF ~verify_struct(pk_w, enc_snapshot(srs.msg), srs.sig_watchtower)
    THEN Verdict("BadWatchtowerSig", 0)
    ELSE IF FirstBadEntry(full_log) # 0
         THEN LET i == FirstBadEntry(full_log)
              IN  Verdict(IF ~EntryKeyOk(full_log[i]) THEN "BadKey" ELSE "BadPartySig", i)
    ELSE IF merkle_root([i \in 1..Len(full_log) |-> leaf_hash(enc_prr(full_log[i]))])
                # srs.msg.merkle_root
         THEN Verdict("RootMismatch", 0)
    ELSE Verdict("ok", 0)

verify_snapshot_and_log_root_first(pk_w, srs, full_log) ==
    IF ~verify_struct(pk_w, enc_snapshot(srs.msg), srs.sig_watchtower)
    THEN Verdict("BadWatchtowerSig", 0)
    ELSE IF Len(full_log) # srs.msg.log_len
         THEN Verdict("LengthMismatch", 0)
    ELSE IF merkle_root([i \in 1..Len(full_log) |-> leaf_hash(enc_prr(full_log[i]))])
                # srs.msg.merkle_root
         THEN Verdict("RootMismatch", 0)
    ELSE IF FirstBadEntry(full_log) # 0
         THEN LET i == FirstBadEntry(full_log)
              IN  Verdict(IF ~EntryKeyOk(full_log[i]) THEN "BadKey" ELSE "BadPartySig", i)
    ELSE Verdict("ok", 0)

\* verify_snapshot_and_log: "ok", or the first check that fails.
verify_snapshot_and_log(pk_w, srs, full_log) ==
    IF ~verify_struct(pk_w, enc_snapshot(srs.msg), srs.sig_watchtower)
    THEN Verdict("BadWatchtowerSig", 0)
    ELSE IF Len(full_log) # srs.msg.log_len
         THEN Verdict("LengthMismatch", 0)
    ELSE IF FirstBadEntry(full_log) # 0
         THEN LET i == FirstBadEntry(full_log)
              IN  Verdict(IF ~EntryKeyOk(full_log[i]) THEN "BadKey" ELSE "BadPartySig", i)
    ELSE IF merkle_root([i \in 1..Len(full_log) |-> leaf_hash(enc_prr(full_log[i]))])
                # srs.msg.merkle_root
         THEN Verdict("RootMismatch", 0)
    ELSE Verdict("ok", 0)

----------------------------------------------------------------------------
(* The watchtower as the party meets it: each handler runs under the       *)
(* Mutex from start to end, so a request is one step.                      *)

\* POST /register by any party.
WtRegister(prr) ==
    /\ ppc # "done"
    /\ Len(log) < MaxLog
    /\ register_check(epoch, last_seq, prr) = "ok"
    /\ last_seq' = last_seq_insert(last_seq, prr.msg.party_id, prr.msg.seq)
    /\ log' = log_push(log, prr)
    /\ issued' = issued \cup {[srs |-> snapshot(epoch, log'), log |-> log']}
    /\ UNCHANGED <<evars, epoch, tvars, pvars>>

\* What a party's GET /snapshot can bring back over an untrusted transport:
\* the watchtower's answer, an answer it gave earlier, or an altered one.
SnapshotResponses ==
    LET own == snapshot(epoch, log)
    IN  {own} \cup {a.srs : a \in issued}
            \cup {[own EXCEPT !.msg.log_len = @ + 1],
                  [own EXCEPT !.sig_watchtower = GarbageSig]}

OtherEndpoint(ep) == CHOOSE e \in Endpoints : e # ep

\* An entry of the log as a tampering transport can replace it: re-signed
\* by its party for another endpoint, altered under the old signature, or
\* with an unparsable key.
TamperedEntries(prr) ==
    LET moved == [prr.msg EXCEPT !.endpoint = OtherEndpoint(@)]
    IN  {SignedPRR(moved, prr.msg.pk_party - 10),
         [prr EXCEPT !.msg = moved],
         [prr EXCEPT !.msg.pk_party = InvalidPkBytes]}

\* What GET /entries can bring back in place of the list es.
TamperedLists(es) ==
    LET n == Len(es)
    IN  {SubSeq(es, 1, n - 1), Append(es, es[n])}
        \cup (IF n >= 2
              THEN {[i \in 1..n |-> IF i = 1 THEN es[2] ELSE IF i = 2 THEN es[1] ELSE es[i]]}
              ELSE {})
        \cup UNION {{[es EXCEPT ![i] = e] : e \in TamperedEntries(es[i])} : i \in 1..n}

----------------------------------------------------------------------------
(* crates/party/src/main.rs: full_sync_and_verify *)

PkW == watchtower_pubkey_bytes

NoNet == [srs |-> FALSE, entries |-> FALSE]

SyncFail(e) ==
    /\ sync_err' = e
    /\ ppc' = "done"

\* Line 353, wt.snapshot().await? : the request fails, or an SRS comes back;
\* lines 355-356 skip the entries request when log_len is 0.
SyncSnapshotAlwaysFetch ==
    /\ ppc = "idle"
    /\ st0' = st
    /\ \/ /\ SyncFail("transport")
          /\ UNCHANGED <<evars, f_srs, f_entries, net, issued>>
       \/ \E srs \in SnapshotResponses :
            /\ f_srs' = srs
            /\ net' = [srs |-> srs = snapshot(epoch, log), entries |-> srs.msg.log_len = 0]
            /\ issued' = issued \cup {[srs |-> snapshot(epoch, log), log |-> log]}
            /\ f_entries' = <<>>
            /\ ppc' = "got_srs"
            /\ sync_err' = ""
    /\ UNCHANGED <<evars, epoch, log, last_seq, tvars, st, applied>>

SyncSnapshot ==
    /\ ppc = "idle"
    /\ st0' = st
    /\ \/ /\ SyncFail("transport")
          /\ UNCHANGED <<evars, f_srs, f_entries, net, issued>>
       \/ \E srs \in SnapshotResponses :
            /\ f_srs' = srs
            /\ net' = [srs |-> srs = snapshot(epoch, log), entries |-> srs.msg.log_len = 0]
            /\ issued' = issued \cup {[srs |-> snapshot(epoch, log), log |-> log]}
            /\ f_entries' = <<>>
            /\ ppc' = IF srs.msg.log_len = 0 THEN "got_entries" ELSE "got_srs"
            /\ sync_err' = ""
    /\ UNCHANGED <<evars, epoch, log, last_seq, tvars, st, applied>>

\* Line 356, wt.entries(1, k).await? : the request fails (transport, or the
\* watchtower's 400), or a list comes back.
SyncEntries ==
    /\ ppc = "got_srs"
    /\ LET r == entries(log, 1, f_srs.msg.log_len)
       IN  \/ /\ SyncFail(IF r.ok THEN "transport" ELSE "entries failed")
              /\ UNCHANGED <<evars, f_entries, net>>
           \/ /\ r.ok
              /\ \E es \in {r.entries} \cup TamperedLists(r.entries) :
                    /\ f_entries' = es
                    /\ net' = [net EXCEPT !.entries = (es = r.entries)]
                    /\ ppc' = "got_entries"
                    /\ sync_err' = ""
    /\ UNCHANGED <<evars, wvars, tvars, st, f_srs, st0, applied>>

\* Lines 360-362: what a sync whose verification ended with result v
\* leaves in the party state.
sync_store_unverified(s, srs, es, v) ==
    IF v.err = "ok"
    THEN apply_prrs([s EXCEPT !.current_srs = <<srs>>,
                              !.last_log_len = srs.msg.log_len], es)
    ELSE [s EXCEPT !.current_srs = <<srs>>]

sync_store(s, srs, es, v) ==
    IF v.err = "ok"
    THEN apply_prrs([s EXCEPT !.current_srs = <<srs>>,
                              !.last_log_len = srs.msg.log_len], es)
    ELSE s

\* Lines 358-363.
SyncVerify ==
    /\ ppc = "got_entries"
    /\ LET v == verify_snapshot_and_log(PkW, f_srs, f_entries)
       IN  /\ st' = sync_store(st, f_srs, f_entries, v)
           /\ sync_err' = v.err
           /\ applied' = IF v.err = "ok"
                         THEN applied \cup {f_entries[i] : i \in 1..Len(f_entries)}
                         ELSE applied
    /\ ppc' = "done"
    /\ UNCHANGED <<evars, wvars, tvars, f_srs, f_entries, net, st0>>

\* full_sync_and_verify returns; its locals are gone.
SyncReturn ==
    /\ ppc = "done"
    /\ ppc' = "idle"
    /\ f_srs' = NoSrs
    /\ f_entries' = <<>>
    /\ net' = NoNet
    /\ sync_err' = ""
    /\ st0' = st
    /\ UNCHANGED <<evars, wvars, tvars, st, applied>>

\* load_or_init with no state file: party 1 in the watchtower's epoch.
PartyInit ==
    /\ st = PartyStateFile_new(DefaultEpoch, 1)
    /\ ppc = "idle"
    /\ f_srs = NoSrs
    /\ f_entries = <<>>
    /\ sync_err = ""
    /\ net = NoNet
    /\ st0 = PartyStateFile_new(DefaultEpoch, 1)
    /\ applied = {}

\* The registrations other parties make while the party syncs.
SyncRegisterRequests == {prr \in HonestPRRs : prr.msg.seq >= 1}

NoGossipResp == [status |-> 0, body |-> "", epoch |-> 0, log_len |-> 0]

\* Command::GossipServe: last starts as the state file's current_srs.
GossipInit ==
    /\ last = PartyStateFile_new(DefaultEpoch, 1).current_srs
    /\ glock = NoThread
    /\ gpc = [t \in Threads |-> "idle"]
    /\ greq = [t \in Threads |-> NoSrs]
    /\ gresp = [t \in Threads |-> NoGossipResp]
    /\ ghist = <<>>

\* merkle_root of no leaves.
MerkleInit ==
    /\ m_leaves = <<>>
    /\ m_root = merkle_root(<<>>)
    /\ m_prev = merkle_root(<<>>)

\* No list applied yet.
ReapplyInit ==
    /\ r_list = <<>>
    /\ r_first = PartyStateFile_new(DefaultEpoch, 1)
    /\ r_phase = 0

NoCmd == [kind |-> "none", epoch |-> 0, party_id |-> 0, loop |-> FALSE]

NoStored == [len |-> 0, by |-> "none"]

NoRegOut == [seq |-> 0, result |-> "none"]

\* The parties a roster can name besides party 1.
PeerIds == {2, 3}

\* No party command has run: no state file, nothing stored or verified.
CommandInit ==
    /\ file = <<>>
    /\ cmd = NoCmd
    /\ cpc = "none"
    /\ stored = <<NoStored, NoStored>>
    /\ reg_out = NoRegOut
    /\ verified = {}
    /\ connected = {}
    /\ to_probe = {}
    /\ probed = [p \in PeerIds |-> 0]
    /\ conn0 = {}
    /\ up = {}

\* The verifier has not been called.
VerifyInit == v_out = Verdict("none", 0)

Init ==
    /\ WatchtowerInit /\ PartyInit /\ GossipInit /\ MerkleInit /\ ReapplyInit
    /\ CommandInit /\ VerifyInit

Spec == Init /\ [][Next]_vars

NextSync ==
    \/ \E prr \in SyncRegisterRequests : WtRegister(prr)
    \/ SyncSnapshot
    \/ SyncEntries
    \/ SyncVerify
    \/ SyncReturn

SpecSync == Init /\ [][NextSync]_vars


----------------------------------------------------------------------------
(* PartyStateFile::apply_prrs on its own: any lists of records, verified   *)
(* or not, applied to a fresh party state.                                 *)

\* Records handed to apply_prrs at most, and the longest list.
MaxApplied == 3
MaxBatch == 2

\* The honest records, and one that names party 2 under another key.
RosterInputs ==
    HonestPRRs \cup
        {SignedPRR([m EXCEPT !.pk_party = verifying_key(OtherSk(m.party_id))],
                   OtherSk(m.party_id)) : m \in {b \in TamperBase : b.party_id = 2}}

RosterBatches ==
    UNION {[1..n -> RosterInputs] : n \in 0..MaxBatch}

Elements(seq) == {seq[i] : i \in 1..Len(seq)}

\* st.apply_prrs(&prrs)
ApplyPrrsCall(prrs) ==
    /\ Cardinality(applied \cup Elements(prrs)) <= MaxApplied
    /\ st' = apply_prrs(st, prrs)
    /\ applied' = applied \cup Elements(prrs)
    /\ UNCHANGED <<evars, wvars, tvars, ppc, f_srs, f_entries, sync_err, net, st0>>

NextRoster == \E prrs \in RosterBatches : ApplyPrrsCall(prrs)

SpecRoster == Init /\ [][NextRoster]_vars

----------------------------------------------------------------------------
(* crates/party/src/gossip.rs: POST /gossip.  The handler reads only       *)
(* req.srs; from_party_id is carried and never read.                       *)

\* Gossip requests answered at most.
MaxGossip == 3

\* Snapshot messages an equivocating watchtower may sign: the roots of three
\* one-entry logs.
GossipRoots ==
    {merkle_root(log_leaves(<<r>>)) :
        r \in {q \in HonestPRRs : q.msg.seq = 1}}

GossipMsgs ==
    {[epoch |-> DefaultEpoch, log_len |-> 1, merkle_root |-> r] : r \in GossipRoots}
    \cup {[epoch |-> e, log_len |-> k, merkle_root |-> r] :
            e \in {DefaultEpoch, DefaultEpoch + 1}, k \in {1, 2},
            r \in {merkle_root(log_leaves(<<q>>)) :
                     q \in {x \in HonestPRRs : x.msg.seq = 1 /\ x.msg.endpoint = <<7>>}}}

SignedSnapshot(m, sk) ==
    [msg |-> m, sig_watchtower |-> sign_struct(sk, enc_snapshot(m))]

\* What peers post: snapshots the watchtower signed, and one message signed
\* with a party's key and with a garbage signature.
GossipBadBase ==
    {x \in GossipMsgs :
        /\ x.epoch = DefaultEpoch
        /\ x.log_len = 2
        /\ x.merkle_root \in
              {merkle_root(log_leaves(<<q>>)) :
                  q \in {r \in HonestPRRs : r.msg.seq = 1 /\ r.msg.party_id = 2}}}

GossipRequests ==
    {SignedSnapshot(m, WatchtowerSk) : m \in GossipMsgs}
    \cup {SignedSnapshot(m, PartySk(1)) : m \in GossipBadBase}
    \cup {[msg |-> m, sig_watchtower |-> GarbageSig] : m \in GossipBadBase}

\* Lines 28-30: same epoch and log_len, another root.
equivocation_ignore_epoch(prev, srs) ==
    /\ prev.msg.log_len = srs.msg.log_len
    /\ prev.msg.merkle_root # srs.msg.merkle_root

equivocation(prev, srs) ==
    /\ prev.msg.epoch = srs.msg.epoch
    /\ prev.msg.log_len = srs.msg.log_len
    /\ prev.msg.merkle_root # srs.msg.merkle_root

GossipIdle(t) == gpc[t] = "idle" /\ \A u \in Threads : u < t => gpc[u] # "idle"

\* The handler's answer is on its way: the request is recorded with the
\* slot before and after it.
GossipAnswer(t, srs, r, after) ==
    /\ gresp' = [gresp EXCEPT ![t] = r]
    /\ gpc' = [gpc EXCEPT ![t] = "respond"]
    /\ ghist' = Append(ghist, [srs |-> srs, prev |-> last, resp |-> r, after |-> after])

\* Lines 21-23: the signature check, before the lock is taken.
GossipReceiveStoreFirst(t, srs) ==
    /\ GossipIdle(t)
    /\ Len(ghist) + Cardinality({u \in Threads : gpc[u] = "verified"}) < MaxGossip
    /\ IF ~verify_struct(PkW, enc_snapshot(srs.msg), srs.sig_watchtower)
       THEN /\ GossipAnswer(t, srs, [NoGossipResp EXCEPT !.status = 400,
                                        !.body = "invalid watchtower signature"],
                            <<srs>>)
            /\ last' = <<srs>>
            /\ UNCHANGED <<glock, greq>>
       ELSE /\ gpc' = [gpc EXCEPT ![t] = "verified"]
            /\ greq' = [greq EXCEPT ![t] = srs]
            /\ UNCHANGED <<last, glock, gresp, ghist>>
    /\ UNCHANGED <<cvars, vvars, wvars, tvars, pvars, mvars, rvars>>

GossipReceive(t, srs) ==
    /\ GossipIdle(t)
    /\ Len(ghist) + Cardinality({u \in Threads : gpc[u] = "verified"}) < MaxGossip
    /\ IF ~verify_struct(PkW, enc_snapshot(srs.msg), srs.sig_watchtower)
       THEN /\ GossipAnswer(t, srs, [NoGossipResp EXCEPT !.status = 400,
                                        !.body = "invalid watchtower signature"],
                            last)
            /\ UNCHANGED <<last, glock, greq>>
       ELSE /\ gpc' = [gpc EXCEPT ![t] = "verified"]
            /\ greq' = [greq EXCEPT ![t] = srs]
            /\ UNCHANGED <<last, glock, gresp, ghist>>
    /\ UNCHANGED <<cvars, vvars, wvars, tvars, pvars, mvars, rvars>>

\* Lines 25-44: under the lock, compare with the slot; report, or store.
GossipCompare(t) ==
    /\ gpc[t] = "verified"
    /\ glock = NoThread
    /\ glock' = t
    /\ IF last # <<>> /\ equivocation(last[1], greq[t])
       THEN /\ GossipAnswer(t, greq[t],
                    [status |-> 409, body |-> "EQUIVOCATION DETECTED",
                     epoch |-> last[1].msg.epoch, log_len |-> last[1].msg.log_len],
                    last)
            /\ UNCHANGED last
       ELSE /\ last' = <<greq[t]>>
            /\ GossipAnswer(t, greq[t],
                    [NoGossipResp EXCEPT !.status = 200, !.body = "ok"], <<greq[t]>>)
    /\ UNCHANGED <<cvars, vvars, wvars, tvars, pvars, mvars, rvars, greq>>

\* The handler returns: the guard and the request are dropped.
GossipReturn(t) ==
    /\ gpc[t] = "respond"
    /\ glock' = IF glock = t THEN NoThread ELSE glock
    /\ gpc' = [gpc EXCEPT ![t] = "idle"]
    /\ greq' = [greq EXCEPT ![t] = NoSrs]
    /\ gresp' = [gresp EXCEPT ![t] = NoGossipResp]
    /\ UNCHANGED <<cvars, vvars, wvars, tvars, pvars, mvars, rvars, last, ghist>>

NextGossip ==
    \/ \E t \in Threads, srs \in GossipRequests : GossipReceive(t, srs)
    \/ \E t \in Threads : GossipCompare(t)
    \/ \E t \in Threads : GossipReturn(t)

SpecGossip == Init /\ [][NextGossip]_vars

----------------------------------------------------------------------------
(* crates/common/src/merkle.rs: merkle_root over leaf sequences that grow  *)
(* by one leaf at a time, as the leaves of the log do.                     *)

\* Longest leaf sequence explored.
MaxLeaves == 5

\* Leaves: two record hashes, the hash of no bytes, and a leaf that is also
\* the node over two leaves.
MerkleLeaves ==
    {leaf_hash(<<1>>), leaf_hash(<<2>>), leaf_hash(<<>>),
     hash_node(leaf_hash(<<1>>), leaf_hash(<<1>>))}

\* merkle_root(leaves) with one more leaf.
MerkleAppend(x) ==
    /\ Len(m_leaves) < MaxLeaves
    /\ m_leaves' = Append(m_leaves, x)
    /\ m_root' = merkle_root(Append(m_leaves, x))
    /\ m_prev' = m_root
    /\ UNCHANGED <<cvars, vvars, wvars, tvars, pvars, gvars, rvars>>

NextMerkle == \E x \in MerkleLeaves : MerkleAppend(x)

SpecMerkle == Init /\ [][NextMerkle]_vars

----------------------------------------------------------------------------
(* PartyStateFile::apply_prrs called again with the list it was just       *)
(* called with.                                                            *)

\* The records of party 1, and the first of party 2.
ReapplyInputs ==
    {r \in HonestPRRs : r.msg.party_id = 1 \/ r.msg.seq = 1}

ReapplyBatches ==
    UNION {[1..n -> ReapplyInputs] : n \in 0..MaxBatch}

\* st.apply_prrs(&prrs) with a new list.
ReapplyFirst(prrs) ==
    /\ st' = apply_prrs(st, prrs)
    /\ r_list' = prrs
    /\ r_first' = apply_prrs(st, prrs)
    /\ r_phase' = 1
    /\ UNCHANGED <<cvars, vvars, wvars, tvars, gvars, mvars,
                   ppc, f_srs, f_entries, sync_err, net, st0, applied>>

\* st.apply_prrs(&prrs) with the same list again.
ReapplySecond ==
    /\ r_phase = 1
    /\ st' = apply_prrs(st, r_list)
    /\ r_phase' = 2
    /\ UNCHANGED <<cvars, vvars, wvars, tvars, gvars, mvars, r_list, r_first,
                   ppc, f_srs, f_entries, sync_err, net, st0, applied>>

NextReapply ==
    \/ \E prrs \in ReapplyBatches : ReapplyFirst(prrs)
    \/ ReapplySecond

SpecReapply == Init /\ [][NextReapply]_vars

----------------------------------------------------------------------------
(* crates/party/src/main.rs: the Register, Sync and Run commands, run one  *)
(* at a time over the state file, against the watchtower as the party     *)
(* meets it.  A request fails or is answered; an answer arrives as sent or *)
(* altered in a way verification catches.                                  *)

\* --epoch values a command is started with.
CmdEpochs == {DefaultEpoch, DefaultEpoch + 1}

\* --endpoint of party 1.
CmdEndpoint == <<7>>

\* state.rs load_or_init: the persisted state when it was saved for the
\* requested epoch and party, a fresh one otherwise.
load_or_init_and(f, e, p) ==
    IF f # <<>>
    THEN IF f[1].epoch # e /\ f[1].party_id # p
         THEN PartyStateFile_new(e, p)
         ELSE f[1]
    ELSE PartyStateFile_new(e, p)

load_or_init(f, e, p) ==
    IF f # <<>>
    THEN IF f[1].epoch # e \/ f[1].party_id # p
         THEN PartyStateFile_new(e, p)
         ELSE f[1]
    ELSE PartyStateFile_new(e, p)

\* state.rs save: the file holds the state.
save(s) == <<s>>

\* register_self, lines 303-318: the record for the state's next_seq,
\* signed with the key of the key file.
register_self_record(s, ep) ==
    SignedPRR(RegistrationMessageOf(s.epoch, s.party_id, ep,
                                    verifying_key(PartySk(1)), s.next_seq,
                                    CHOOSE n \in Nonces : TRUE),
              PartySk(1))

\* register_self, lines 321-324, after the watchtower's answer srs.
register_self_store(s, srs) ==
    [s EXCEPT !.current_srs = <<srs>>, !.next_seq = @ + 1]

\* A snapshot becomes current_srs.
StoredPush(srs, by) == <<stored[2], [len |-> srs.msg.log_len, by |-> by]>>

\* The peers of lines 207-213.
RosterPeers(s) == DOMAIN s.roster \ {s.party_id}

\* The process is gone, and its memory with it.
CmdEnd(e) ==
    /\ cpc' = "none"
    /\ cmd' = NoCmd
    /\ st' = PartyStateFile_new(DefaultEpoch, 1)
    /\ f_srs' = NoSrs
    /\ f_entries' = <<>>
    /\ sync_err' = ""
    /\ verified' = {}
    /\ connected' = {}
    /\ to_probe' = {}
    /\ probed' = [p \in PeerIds |-> 0]
    /\ conn0' = {}

SyncFailedEndsLoop(e) == CmdEnd(e)

\* full_sync_and_verify returns Err(e): lines 149, 165 and 196 end the
\* command with it, line 203 logs it and goes on to the sleep.
SyncFailed(e) ==
    IF cmd.loop
    THEN /\ cpc' = "sleep"
         /\ sync_err' = e
         /\ f_srs' = NoSrs
         /\ f_entries' = <<>>
         /\ UNCHANGED <<cmd, st, verified, loopvars>>
    ELSE CmdEnd(e)

\* Lines 143-146, 162-164, 181-184: the command starts and loads its state.
CmdStart(kind, e, p) ==
    /\ cpc = "none"
    /\ cmd' = [kind |-> kind, epoch |-> e, party_id |-> p, loop |-> FALSE]
    /\ st' = load_or_init(file, e, p)
    /\ cpc' = "loaded"
    /\ sync_err' = ""
    /\ UNCHANGED <<gvars, mvars, rvars, vvars, wvars, tvars, ppc, f_srs, f_entries,
                   net, st0, applied, file, stored, reg_out, verified,
                   loopvars, up>>

\* On to line 148 or 195 (register_self), or to line 165.
CmdBegin ==
    /\ cpc = "loaded"
    /\ cpc' = IF cmd.kind = "sync" THEN "snapshot" ELSE "register"
    /\ UNCHANGED <<gvars, mvars, rvars, vvars, wvars, tvars, pvars, file, cmd,
                   stored, reg_out, verified, loopvars, up>>

\* register_self, lines 297-326, with the watchtower's POST /register: the
\* request is lost, or rejected, or accepted; an accepted one is answered
\* with the new snapshot, which arrives or not.
CmdRegister ==
    /\ cpc = "register"
    /\ LET prr == register_self_record(st, CmdEndpoint)
           r == register_check(epoch, last_seq, prr)
       IN  \/ /\ CmdEnd("transport")
              /\ UNCHANGED <<wvars, stored, reg_out>>
           \/ /\ r # "ok"
              /\ reg_out' = [seq |-> st.next_seq, result |-> r]
              /\ CmdEnd(r)
              /\ UNCHANGED <<wvars, stored>>
           \/ /\ r = "ok"
              /\ Len(log) < MaxLog
              /\ last_seq' = last_seq_insert(last_seq, prr.msg.party_id, prr.msg.seq)
              /\ log' = log_push(log, prr)
              /\ reg_out' = [seq |-> st.next_seq, result |-> r]
              /\ UNCHANGED <<epoch, issued>>
              /\ \/ /\ st' = register_self_store(st, snapshot(epoch, log'))
                    /\ stored' = StoredPush(snapshot(epoch, log'), "register")
                    /\ cpc' = "snapshot"
                    /\ UNCHANGED <<cmd, f_srs, f_entries, sync_err, verified, loopvars>>
                 \/ /\ CmdEnd("transport")
                    /\ UNCHANGED stored
    /\ UNCHANGED <<gvars, mvars, rvars, vvars, tvars, ppc, net, st0, applied, file, up>>

\* full_sync_and_verify, line 353: GET /snapshot.
CmdSnapshot ==
    /\ cpc = "snapshot"
    /\ \/ SyncFailed("transport")
       \/ \E srs \in {snapshot(epoch, log),
                      [snapshot(epoch, log) EXCEPT !.sig_watchtower = GarbageSig]} :
            /\ f_srs' = srs
            /\ f_entries' = <<>>
            /\ cpc' = IF srs.msg.log_len = 0 THEN "verify" ELSE "entries"
            /\ UNCHANGED <<cmd, st, sync_err, verified, loopvars>>
    /\ UNCHANGED <<gvars, mvars, rvars, vvars, wvars, tvars, ppc, net, st0, applied,
                   file, stored, reg_out, up>>

\* full_sync_and_verify, line 356: GET /entries?from=1&to=k.
CmdEntries ==
    /\ cpc = "entries"
    /\ LET r == entries(log, 1, f_srs.msg.log_len)
       IN  \/ SyncFailed(IF r.ok THEN "transport" ELSE "entries failed")
           \/ /\ r.ok
              /\ \E es \in {r.entries,
                            [r.entries EXCEPT ![Len(r.entries)].msg.endpoint =
                                                        OtherEndpoint(@)]} :
                    f_entries' = es
              /\ cpc' = "verify"
              /\ UNCHANGED <<cmd, st, f_srs, sync_err, verified, loopvars>>
    /\ UNCHANGED <<gvars, mvars, rvars, vvars, wvars, tvars, ppc, net, st0, applied,
                   file, stored, reg_out, up>>

\* full_sync_and_verify, lines 358-363; in the runner loop a success goes
\* on to lines 207-213.
CmdVerify ==
    /\ cpc = "verify"
    /\ LET v == verify_snapshot_and_log(PkW, f_srs, f_entries)
           s == sync_store(st, f_srs, f_entries, v)
       IN  IF v.err = "ok"
           THEN /\ st' = s
                /\ verified' = {f_srs}
                /\ stored' = StoredPush(f_srs, "sync")
                /\ sync_err' = "ok"
                /\ f_srs' = NoSrs
                /\ f_entries' = <<>>
                /\ cpc' = IF cmd.loop THEN "probe" ELSE "save"
                /\ to_probe' = IF cmd.loop THEN RosterPeers(s) \ connected ELSE to_probe
                /\ UNCHANGED <<cmd, connected, probed, conn0>>
           ELSE /\ SyncFailed(v.err)
                /\ UNCHANGED stored
    /\ UNCHANGED <<gvars, mvars, rvars, vvars, wvars, tvars, ppc, net, st0, applied,
                   file, reg_out, up>>

\* Lines 215-227: one peer of the list; a connected peer is skipped, the
\* others get one connect_and_handshake.
CmdProbe(p) ==
    /\ cpc = "probe"
    /\ p \in to_probe
    /\ to_probe' = to_probe \ {p}
    /\ probed' = [probed EXCEPT ![p] = @ + 1]
    /\ connected' = IF p \in up THEN connected \cup {p} ELSE connected
    /\ UNCHANGED <<gvars, mvars, rvars, vvars, wvars, tvars, pvars, file, cmd, cpc,
                   stored, reg_out, verified, conn0, up>>

\* The for loop of line 215 is through.
CmdProbesDone ==
    /\ cpc = "probe"
    /\ to_probe = {}
    /\ cpc' = "save"
    /\ UNCHANGED <<gvars, mvars, rvars, vvars, wvars, tvars, pvars, file, cmd,
                   stored, reg_out, verified, loopvars, up>>

CmdSaveAfterRegister ==
    /\ cpc \in {"save", "snapshot"}
    /\ \/ /\ file' = save(st)
          /\ IF cmd.kind = "run"
             THEN /\ cmd' = [cmd EXCEPT !.loop = TRUE]
                  /\ cpc' = IF cmd.loop THEN "sleep" ELSE "snapshot"
                  /\ sync_err' = IF cmd.loop THEN sync_err ELSE ""
                  /\ UNCHANGED <<st, f_srs, f_entries, verified, loopvars>>
             ELSE CmdEnd("ok")
       \/ /\ CmdEnd("save failed")
          /\ UNCHANGED file
    /\ UNCHANGED <<gvars, mvars, rvars, vvars, wvars, tvars, ppc, net, st0, applied,
                   stored, reg_out, up>>

\* st.save(&state_file)?, lines 150, 166, 197 and 230: the write succeeds
\* or ends the command.  After line 197 the runner loop starts with an
\* empty connected set (line 200).
CmdSave ==
    /\ cpc = "save"
    /\ \/ /\ file' = save(st)
          /\ IF cmd.kind = "run"
             THEN /\ cmd' = [cmd EXCEPT !.loop = TRUE]
                  /\ cpc' = IF cmd.loop THEN "sleep" ELSE "snapshot"
                  /\ sync_err' = IF cmd.loop THEN sync_err ELSE ""
                  /\ UNCHANGED <<st, f_srs, f_entries, verified, loopvars>>
             ELSE CmdEnd("ok")
       \/ /\ CmdEnd("save failed")
          /\ UNCHANGED file
    /\ UNCHANGED <<gvars, mvars, rvars, vvars, wvars, tvars, ppc, net, st0, applied,
                   stored, reg_out, up>>

\* Line 238, and the next tick begins.
CmdSleep ==
    /\ cpc = "sleep"
    /\ cpc' = "snapshot"
    /\ sync_err' = ""
    /\ conn0' = connected
    /\ probed' = [p \in PeerIds |-> 0]
    /\ UNCHANGED <<gvars, mvars, rvars, vvars, wvars, tvars, st, ppc, f_srs,
                   f_entries, net, st0, applied, file, cmd, stored, reg_out,
                   verified, connected, to_probe, up>>

\* A peer's listener comes up or goes away.
PeerFlip(p) ==
    /\ up' = IF p \in up THEN up \ {p} ELSE up \cup {p}
    /\ UNCHANGED <<gvars, mvars, rvars, vvars, wvars, tvars, pvars, file, cmd, cpc,
                   stored, reg_out, verified, loopvars>>

\* The registrations party 2 makes meanwhile.
OtherRegisterRequests ==
    {prr \in HonestPRRs : prr.msg.party_id = 2 /\ prr.msg.seq >= 1}

\* The three commands of party 1, with no peer listening.
NextParty ==
    \/ \E prr \in OtherRegisterRequests : WtRegister(prr)
    \/ \E kind \in {"register", "sync", "run"}, e \in CmdEpochs : CmdStart(kind, e, 1)
    \/ CmdBegin
    \/ CmdRegister
    \/ CmdSnapshot
    \/ CmdEntries
    \/ CmdVerify
    \/ \E p \in PeerIds : CmdProbe(p)
    \/ CmdProbesDone
    \/ CmdSave
    \/ CmdSleep

SpecParty == Init /\ [][NextParty]_vars

\* The same commands, started for either party id over the one state file.
NextLoad ==
    \/ \E kind \in {"register", "sync"}, e \in CmdEpochs, p \in PartyIds :
            CmdStart(kind, e, p)
    \/ CmdBegin
    \/ CmdRegister
    \/ CmdSnapshot
    \/ CmdEntries
    \/ CmdVerify
    \/ CmdSave

SpecLoad == Init /\ [][NextLoad]_vars

\* The registrations of the peers of party 1: party 2, and a party 3 that
\* registers under the key it shares with party 2.
RunRegisterRequests ==
    {prr \in HonestPRRs : prr.msg.party_id = 2 /\ prr.msg.seq = 1}
        \cup {SignedPRR(RegistrationMessageOf(DefaultEpoch, 3, <<7, 9>>,
                                              verifying_key(PartySk(2)), 1,
                                              CHOOSE n \in Nonces : TRUE),
                        PartySk(2))}

\* A step of the Run command.
RunStep ==
    \/ CmdStart("run", DefaultEpoch, 1)
    \/ CmdBegin
    \/ CmdRegister
    \/ CmdSnapshot
    \/ CmdEntries
    \/ CmdVerify
    \/ \E p \in PeerIds : CmdProbe(p)
    \/ CmdProbesDone
    \/ CmdSave
    \/ CmdSleep

\* Command::Run of party 1 while its peers register and their listeners
\* come and go.
NextRun ==
    \/ \E prr \in RunRegisterRequests : WtRegister(prr)
    \/ \E p \in PeerIds : PeerFlip(p)
    \/ RunStep

\* The tokio runtime keeps running the command's task: a tick that has
\* reached its probes makes them, ends, and sleeps its interval out.
SpecRun ==
    /\ Init /\ [][NextRun]_vars
    /\ WF_vars(\E p \in PeerIds : CmdProbe(p))
    /\ WF_vars(CmdProbesDone)
    /\ WF_vars(CmdSleep)

----------------------------------------------------------------------------
(* crates/party/src/client.rs: verify_snapshot_and_log called on its own,  *)
(* with a snapshot the transport can bring and a candidate list.           *)

\* The records the watchtower has accepted before the call.
VerifyRegisterRequests ==
    {prr \in HonestPRRs : prr.msg.seq >= 1 /\ prr.msg.endpoint = <<7>>}

\* The candidate lists for the log prefix es: each entry as it is or as a
\* tampering transport can replace it, or the list one short or one long.
RECURSIVE VerifyVariants(_)
VerifyVariants(es) ==
    IF es = <<>>
    THEN {<<>>}
    ELSE {<<h>> \o t : h \in {es[1]} \cup TamperedEntries(es[1]),
                       t \in VerifyVariants(Tail(es))}

VerifyLists(es) ==
    VerifyVariants(es)
        \cup (IF Len(es) >= 1
              THEN {SubSeq(es, 1, Len(es) - 1), Append(es, es[Len(es)])}
              ELSE {})

\* One call, with its arguments and its result kept for inspection.
VerifyCall(srs, es) ==
    /\ v_out.err = "none"
    /\ f_srs' = srs
    /\ f_entries' = es
    /\ v_out' = verify_snapshot_and_log(PkW, srs, es)
    /\ UNCHANGED <<gvars, mvars, rvars, cvars, wvars, tvars, st, ppc, sync_err,
                   net, st0, applied>>

NextVerify ==
    \/ \E prr \in VerifyRegisterRequests : WtRegister(prr)
    \/ \E srs \in SnapshotResponses :
         \E es \in VerifyLists(SubSeq(log, 1, IF srs.msg.log_len <= Len(log)
                                                THEN srs.msg.log_len ELSE Len(log))) :
            VerifyCall(srs, es)

SpecVerify == Init /\ [][NextVerify]_vars

----------------------------------------------------------------------------
(* Properties of the watchtower, under Spec *)

RegisterResponses == {t \in Threads : resp[t].kind = "register"}
Accepted(t) == resp[t].kind = "register" /\ resp[t].status = 200
Rejected(t) == resp[t].kind = "register" /\ resp[t].status = 400

\* C1: a register call that fails validation (epoch mismatch, unparsable
\* pk_party, bad party signature, non-monotonic seq) leaves log and last_seq
\* exactly as they were when the call began.
C1_FailedRegisterLeavesState ==
    \A t \in Threads :
        Rejected(t) =>
            /\ resp[t].err \in {"EpochMismatch", "BadKey", "BadSignature", "NonMonotonicSeq"}
            /\ log = resp[t].pre.log
            /\ last_seq = resp[t].pre.last_seq

\* A replayed record is rejected while the log holds entries.
C1_Witness ==
    \E t \in Threads :
        /\ Rejected(t)
        /\ resp[t].err = "NonMonotonicSeq"
        /\ Len(log) >= 2

\* The condition of section 4.4 for register to succeed, on the state the
\* call found.
RegisterCondition(prr, ls) ==
    /\ prr.msg.epoch = epoch
    /\ prr.msg.pk_party \in VerifyingKeys
    /\ prr.sig_party = ed25519_sign(prr.msg.pk_party - 10, sha256(enc_registration(prr.msg)))
    /\ \/ prr.msg.party_id \notin DOMAIN ls
       \/ prr.msg.seq > ls[prr.msg.party_id]

\* C2: register succeeds if and only if the epoch matches, pk_party parses,
\* sig_party verifies over the message, and the party is unseen or its seq
\* exceeds last_seq[party_id]; the first seq of a party may be any value.
C2_RegisterSucceedsIff ==
    \A t \in RegisterResponses :
        /\ resp[t].status \in {200, 400}
        /\ resp[t].status = 200 <=> RegisterCondition(resp[t].req.prr, resp[t].pre.last_seq)

\* A party's first registration is accepted with seq 2, after another
\* party's first was accepted with seq 0.
C2_Witness ==
    \E t \in Threads :
        /\ Accepted(t)
        /\ resp[t].req.prr.msg.party_id \notin DOMAIN resp[t].pre.last_seq
        /\ resp[t].req.prr.msg.seq = 2
        /\ Len(log) = 2
        /\ log[1].msg.seq = 0

\* C3: for every party_id the seqs of its accepted registrations strictly
\* increase in log order.
C3_SeqStrictlyIncreasing ==
    \A i, j \in 1..Len(log) :
        (i < j /\ log[i].msg.party_id = log[j].msg.party_id)
            => log[i].msg.seq < log[j].msg.seq

\* One party has three accepted registrations.
C3_Witness ==
    /\ Len(log) = 3
    /\ \A i \in 1..3 : log[i].msg.party_id = 1
    /\ \A t \in Threads : pc[t] = "idle"

\* What one step may do to the log: nothing, or (a register holding the
\* lock, past its checks) append the submitted record.
LogStepAppendOnly ==
    \/ log' = log
    \/ \E t \in Threads :
          /\ req[t].kind = "register"
          /\ pc[t] = "reg_push"
          /\ lock = t
          /\ Len(log') = Len(log) + 1
          /\ SubSeq(log', 1, Len(log)) = log
          /\ log'[Len(log')] = req[t].prr

\* What a whole handler has done to the log when it answers.
HandlerLogEffect ==
    \A t \in Threads :
        (pc[t] # "respond" /\ pc'[t] = "respond") =>
            IF resp'[t].kind = "register" /\ resp'[t].status = 200
            THEN /\ Len(log') = Len(pre'[t].log) + 1
                 /\ SubSeq(log', 1, Len(pre'[t].log)) = pre'[t].log
                 /\ log'[Len(log')] = req'[t].prr
            ELSE log' = pre'[t].log

\* C4: the log is append-only: a successful register appends exactly the
\* submitted record as the new last entry (log_len grows by one, earlier
\* entries keep index and content), and no other operation (snapshot,
\* entries, watchtower_pubkey, failed register) changes the log.
C4_LogAppendOnly == [][LogStepAppendOnly /\ HandlerLogEffect]_vars

\* A party's update is accepted after two other entries.
C4_Witness ==
    \E t \in Threads :
        /\ Accepted(t)
        /\ Len(log) = 3
        /\ log[1].msg.party_id = log[3].msg.party_id
        /\ log[2].msg.party_id # log[3].msg.party_id

\* C5: every SRS returned by snapshot or by a successful register has
\* log_len equal to the length of the log and merkle_root equal to the root
\* over the leaf hashes of exactly those entries, at the instant the handler
\* answers; after a register, the last entry is the record just submitted.
C5_SnapshotMatchesLog ==
    \A t \in Threads :
        (resp[t].kind \in {"register", "snapshot"} /\ resp[t].status = 200) =>
            /\ resp[t].srs.msg.log_len = Len(log)
            /\ resp[t].srs.msg.merkle_root =
                  merkle_root([i \in 1..Len(log) |-> sha256(enc_prr(log[i]))])
            /\ resp[t].srs.msg.epoch = epoch
            /\ resp[t].kind = "register" =>
                  (Len(log) >= 1 /\ log[Len(log)] = resp[t].req.prr)

\* GET /snapshot answers over a log of three entries (a level of odd length).
C5_Witness ==
    \E t \in Threads :
        /\ resp[t].kind = "snapshot"
        /\ resp[t].status = 200
        /\ resp[t].srs.msg.log_len = 3

\* C6: for two snapshots S1, S2 issued with S1.log_len <= S2.log_len, the
\* root over the first S1.log_len leaves of the log behind S2 is
\* S1.merkle_root.
C6_SnapshotConsistency ==
    \A a, b \in issued :
        a.srs.msg.log_len <= b.srs.msg.log_len =>
            merkle_root(log_leaves(SubSeq(b.log, 1, a.srs.msg.log_len)))
                = a.srs.msg.merkle_root

\* Snapshots of lengths 0, 2 and 3 have been issued.
C6_Witness ==
    {0, 2, 3} \subseteq {a.srs.msg.log_len : a \in issued}

\* C14: entries(from, to) fails, returning no entries and changing no
\* state, exactly when from = 0, to = 0, from > to or to > log_len; otherwise
\* it returns the to-from+1 entries at the 1-based indices from..to, in log
\* order.
C14_EntriesRange ==
    \A t \in Threads :
        resp[t].kind = "entries" =>
            LET from == resp[t].req.from
                to == resp[t].req.to
                bad == from = 0 \/ to = 0 \/ from > to \/ to > Len(resp[t].pre.log)
            IN  /\ log = resp[t].pre.log
                /\ last_seq = resp[t].pre.last_seq
                /\ bad => (resp[t].status = 400 /\ resp[t].entries = <<>>)
                /\ ~bad =>
                      /\ resp[t].status = 200
                      /\ Len(resp[t].entries) = to - from + 1
                      /\ \A i \in 1..(to - from + 1) :
                            resp[t].entries[i] = log[from + i - 1]

\* The whole log of three entries is returned.
C14_Witness ==
    \E t \in Threads :
        /\ resp[t].kind = "entries"
        /\ resp[t].status = 200
        /\ resp[t].req.from = 1
        /\ resp[t].req.to = 3
        /\ Len(resp[t].entries) = 3

\* C15: in every state of the watchtower, a record that is in the log would
\* be rejected as non-monotonic if submitted again; a register call for a
\* record the log already held is answered with that error and leaves the
\* log, last_seq and the roster materialized from the log as they were.
C15_ReplayRejected ==
    /\ \A i \in 1..Len(log) :
          register_check(epoch, last_seq, log[i]) = "NonMonotonicSeq"
    /\ \A t \in Threads :
          (resp[t].kind = "register"
              /\ \E i \in 1..Len(resp[t].pre.log) : resp[t].pre.log[i] = resp[t].req.prr) =>
                /\ resp[t].status = 400
                /\ resp[t].err = "NonMonotonicSeq"
                /\ log = resp[t].pre.log
                /\ last_seq = resp[t].pre.last_seq
                /\ apply_loop(<<>>, log, 1) = apply_loop(<<>>, resp[t].pre.log, 1)

\* A party's first record is submitted again after its update was accepted.
C15_Witness ==
    \E t \in Threads :
        /\ Rejected(t)
        /\ Len(log) = 3
        /\ resp[t].req.prr = log[1]
        /\ log[3].msg.party_id = log[1].msg.party_id

\* last_seq is the log's view of each party: its keys are the parties in the
\* log, its values the seq of each party's latest entry, which is its
\* greatest.
LastSeqMatchesLog(lg, ls) ==
    /\ DOMAIN ls = {lg[i].msg.party_id : i \in 1..Len(lg)}
    /\ \A p \in DOMAIN ls :
          LET idx == {i \in 1..Len(lg) : lg[i].msg.party_id = p}
              latest == CHOOSE i \in idx : \A j \in idx : j <= i
          IN  /\ ls[p] = lg[latest].msg.seq
              /\ \A j \in idx : lg[j].msg.seq <= ls[p]

\* C16: in every state a snapshot, entries or register handler can observe
\* (the state it finds when it takes the lock, and the state while the lock
\* is free or held by a reader), last_seq has an entry for a party exactly
\* when the log has one, equal to the seq of the party's latest entry.
C16_RegisterAtomic ==
    /\ lock = NoThread => LastSeqMatchesLog(log, last_seq)
    /\ \A t \in Threads :
          /\ pc[t] # "idle" => LastSeqMatchesLog(pre[t].log, pre[t].last_seq)
          /\ (lock = t /\ req[t].kind \in {"snapshot", "entries", "pubkey"}) =>
                LastSeqMatchesLog(log, last_seq)

\* A snapshot handler takes the lock on a log of three entries of two
\* parties.
C16_Witness ==
    \E t \in Threads :
        /\ pc[t] = "snap_len"
        /\ req[t].kind = "snapshot"
        /\ Len(pre[t].log) = 3
        /\ DOMAIN pre[t].last_seq = {1, 2}

----------------------------------------------------------------------------
(* Properties of the party's sync, under SpecSync *)

SyncDone == ppc = "done"
SigValidUnderOwnKey(prr) ==
    /\ prr.msg.pk_party \in VerifyingKeys
    /\ prr.sig_party =
          ed25519_sign(prr.msg.pk_party - 10, sha256(enc_registration(prr.msg)))

\* C7: for any sequence of records the watchtower accepted, the verifier run
\* with the watchtower's key, the SRS it then issues and the full log
\* entries(1, log_len) succeeds (for an empty log, the empty list); a sync
\* whose two responses are the watchtower's own succeeds.
C7_VerifierRoundTrip ==
    /\ LET full == IF Len(log) = 0 THEN <<>> ELSE entries(log, 1, Len(log)).entries
       IN  verify_snapshot_and_log(PkW, snapshot(epoch, log), full).err = "ok"
    /\ (SyncDone /\ net.srs /\ net.entries) => sync_err = "ok"

\* A sync over an untampered transport has verified a log of three entries.
C7_Witness ==
    /\ SyncDone
    /\ net.srs
    /\ net.entries
    /\ sync_err = "ok"
    /\ Len(f_entries) = 3
    /\ f_srs.msg.log_len = 3

\* C8: when the verifier accepts an SRS the watchtower issued together with
\* a candidate list L, L is the watchtower's log prefix of length
\* srs.msg.log_len, entry for entry, and every entry's signature is valid
\* under its own pk_party.
C8_VerifierSoundness ==
    (SyncDone /\ sync_err = "ok" /\ f_srs \in {a.srs : a \in issued}) =>
        /\ Len(f_entries) = f_srs.msg.log_len
        /\ f_srs.msg.log_len <= Len(log)
        /\ \A i \in 1..Len(f_entries) :
              /\ f_entries[i] = log[i]
              /\ SigValidUnderOwnKey(f_entries[i])

\* The verifier accepted an earlier snapshot of length 2 with a list, while
\* the log has three entries.
C8_Witness ==
    /\ SyncDone
    /\ sync_err = "ok"
    /\ f_srs.msg.log_len = 2
    /\ Len(log) = 3

\* C17: with no accepted registration, snapshot returns log_len 0 and the
\* root SHA256 of the empty byte string; a sync against it never requests
\* entries, verifies the empty list, and leaves the roster empty and
\* last_log_len 0.
C17_EmptySnapshot ==
    /\ Len(log) = 0 =>
          /\ snapshot(epoch, log).msg.log_len = 0
          /\ snapshot(epoch, log).msg.merkle_root = sha256(<<>>)
    /\ ppc = "got_srs" => f_srs.msg.log_len # 0
    /\ (SyncDone /\ net.srs /\ f_srs.msg.log_len = 0) =>
          /\ sync_err = "ok"
          /\ f_entries = <<>>
          /\ st.current_srs = <<f_srs>>
          /\ st.last_log_len = 0
          /\ st.roster = <<>>
          /\ st.last_entries_count = 0

\* A sync against the watchtower's snapshot of its empty log has succeeded.
C17_Witness ==
    /\ SyncDone
    /\ sync_err = "ok"
    /\ net.srs
    /\ Len(log) = 0
    /\ f_srs.msg.log_len = 0
    /\ f_srs.msg.merkle_root = <<0>>
    /\ st.current_srs = <<f_srs>>

PartyView(s) == <<s.current_srs, s.last_log_len, s.roster>>

\* C9: whenever a sync fails (transport error on either request, bad
\* watchtower signature, length mismatch, bad party key or signature, root
\* mismatch), current_srs, last_log_len and roster are what they were when
\* the sync started; they change only once verification has succeeded.
C9_SyncAllOrNothing ==
    /\ (ppc \in {"got_srs", "got_entries"}) => PartyView(st) = PartyView(st0)
    /\ (SyncDone /\ sync_err # "ok") =>
          /\ sync_err \in {"transport", "entries failed", "BadWatchtowerSig",
                           "LengthMismatch", "BadKey", "BadPartySig", "RootMismatch"}
          /\ PartyView(st) = PartyView(st0)

\* After a successful sync of two entries, a later sync fails at the root.
C9_Witness ==
    /\ SyncDone
    /\ sync_err = "RootMismatch"
    /\ st.last_log_len = 2
    /\ DOMAIN st.roster # {}

\* C24: a sync fetches the snapshot and then entries(1, log_len) in two
\* requests; whatever registrations the watchtower accepts between the two,
\* the entries it returns are exactly the log the snapshot was taken of, and
\* verification succeeds, never failing with a length or root mismatch.
C24_SyncAcrossRegisters ==
    /\ (ppc = "got_srs" /\ net.srs) =>
          LET r == entries(log, 1, f_srs.msg.log_len)
          IN  /\ r.ok
              /\ \E a \in issued : a.srs = f_srs /\ a.log = r.entries
              /\ verify_snapshot_and_log(PkW, f_srs, r.entries).err = "ok"
    /\ (SyncDone /\ net.srs /\ net.entries) =>
          /\ sync_err \notin {"LengthMismatch", "RootMismatch"}
          /\ f_entries = SubSeq(log, 1, f_srs.msg.log_len)

\* The snapshot of a log of one entry has arrived, two registrations were
\* accepted since, and the entries request is still to be made.
C24_Witness ==
    /\ ppc = "got_srs"
    /\ net.srs
    /\ f_srs.msg.log_len = 1
    /\ Len(log) = 3
    /\ log[2].msg.party_id # st.party_id

----------------------------------------------------------------------------
(* Properties of the roster, under SpecRoster *)

SeqsFor(pid, prrs) == {r.msg.seq : r \in {x \in prrs : x.msg.party_id = pid}}
MaxOf(S) == CHOOSE m \in S : \A x \in S : x <= m

\* The roster holds, for every party applied, its maximum seq with the
\* endpoint and key of a record of that seq.
RosterLatest ==
    /\ DOMAIN st.roster = {r.msg.party_id : r \in applied}
    /\ \A pid \in DOMAIN st.roster :
          /\ st.roster[pid].seq = MaxOf(SeqsFor(pid, applied))
          /\ \E r \in applied :
                /\ r.msg.party_id = pid
                /\ r.msg.seq = st.roster[pid].seq
                /\ r.msg.endpoint = st.roster[pid].endpoint
                /\ <<r.msg.pk_party \div 64, r.msg.pk_party % 64>>
                      = st.roster[pid].pk_party_b64

\* What one call does to each party's entry, by the records it applies that
\* were not applied before (a record applied again changes nothing).
RosterFrame ==
    \A pid \in PartyIds :
        LET S == SeqsFor(pid, applied' \ applied)
            had == pid \in DOMAIN st.roster
        IN  /\ S = {} =>
                  /\ (pid \in DOMAIN st'.roster) = had
                  /\ had => st'.roster[pid] = st.roster[pid]
            /\ (S # {} /\ had /\ MaxOf(S) <= st.roster[pid].seq) =>
                  st'.roster[pid] = st.roster[pid]
            /\ (S # {} /\ (~had \/ MaxOf(S) > st.roster[pid].seq)) =>
                  st'.roster[pid].seq = MaxOf(S)

\* C10: after any sequence of apply_prrs calls, roster[party_id].seq is the
\* maximum seq applied for that party_id, with the endpoint and pk_party of
\* a record of that seq; a call changes no entry of a party it has no record
\* for, and overwrites an entry iff it is absent or a seq is strictly
\* greater (equal-seq inputs leave it unchanged).
C10_RosterInvariant == []RosterLatest /\ [][RosterFrame]_vars

\* Two records of party 1 with one seq and different endpoints were applied
\* in separate calls, next to a record of party 2.
C10_Witness ==
    /\ 2 \in DOMAIN st.roster
    /\ st.last_entries_count = 1
    /\ \E r1, r2 \in applied :
          /\ r1.msg.party_id = 1
          /\ r2.msg.party_id = 1
          /\ r1.msg.seq = r2.msg.seq
          /\ r1.msg.endpoint # r2.msg.endpoint
          /\ st.roster[1].seq = r1.msg.seq

----------------------------------------------------------------------------
(* Properties of the gossip detector, under SpecGossip *)

\* The signature is the watchtower's over the snapshot message.
SrsSigValid(srs) ==
    srs.sig_watchtower =
        ed25519_sign(WatchtowerSk, sha256(enc_snapshot(srs.msg)))

\* The predicate of section 4.6 on the slot a request found.
Trips(slot, srs) ==
    /\ slot # <<>>
    /\ slot[1].msg.epoch = srs.msg.epoch
    /\ slot[1].msg.log_len = srs.msg.log_len
    /\ slot[1].msg.merkle_root # srs.msg.merkle_root

Conflicting(a, b) ==
    /\ a.msg.epoch = b.msg.epoch
    /\ a.msg.log_len = b.msg.log_len
    /\ a.msg.merkle_root # b.msg.merkle_root

\* The slot is what the request answered last left in it.
SlotIsLastAfter == ghist # <<>> => last = ghist[Len(ghist)].after

\* C11: a snapshot whose watchtower signature verifies is answered 409,
\* naming epoch and log_len, if and only if the slot is present with the same
\* epoch and log_len and another root; the slot is then not overwritten; of
\* two conflicting snapshots received one right after the other, the second
\* is answered 409, or the first was and the slot it conflicted with is the
\* second.
C11_EquivocationDetected ==
    /\ \A i \in 1..Len(ghist) :
          LET h == ghist[i]
          IN  SrsSigValid(h.srs) =>
                /\ h.resp.status = 409 <=> Trips(h.prev, h.srs)
                /\ h.resp.status = 409 =>
                      /\ h.resp.epoch = h.srs.msg.epoch
                      /\ h.resp.log_len = h.srs.msg.log_len
                      /\ h.after = h.prev
    /\ SlotIsLastAfter
    /\ \A i \in 1..(Len(ghist) - 1) :
          LET a == ghist[i]
              b == ghist[i + 1]
          IN  (SrsSigValid(a.srs) /\ SrsSigValid(b.srs) /\ Conflicting(a.srs, b.srs)) =>
                \/ b.resp.status = 409
                \/ a.resp.status = 409 /\ a.prev[1].msg = b.srs.msg

\* Three snapshots of one epoch and log_len with three roots: the second and
\* the third are reported against the first.
C11_Witness ==
    /\ Len(ghist) = 3
    /\ ghist[1].resp.status = 200
    /\ ghist[2].resp.status = 409
    /\ ghist[3].resp.status = 409
    /\ ghist[2].srs # ghist[3].srs
    /\ last = <<ghist[1].srs>>

\* Where the detector can hold a signed snapshot: the slot, and the request
\* of a handler that has not returned.
DetectorHolds(srs) ==
    \/ last = <<srs>>
    \/ \E t \in Threads : gpc[t] # "idle" /\ greq[t] = srs

\* C12: once the detector has reported an equivocation, it holds both signed
\* snapshots, the stored one and the incoming one, after the handler returned.
C12_EvidenceRetained ==
    (\A t \in Threads : gpc[t] = "idle") =>
        \A i \in 1..Len(ghist) :
            ghist[i].resp.status = 409 =>
                /\ DetectorHolds(ghist[i].prev[1])
                /\ DetectorHolds(ghist[i].srs)

\* C13: a snapshot whose signature does not verify under pk_w is answered
\* 400 and leaves the slot unchanged; one whose signature verifies and that
\* does not trip the predicate (slot empty, other epoch, other log_len, or
\* the same root) replaces the slot and is answered 200 "ok".
C13_GossipNonConflict ==
    /\ \A i \in 1..Len(ghist) :
          LET h == ghist[i]
          IN  /\ ~SrsSigValid(h.srs) =>
                    /\ h.resp.status = 400
                    /\ h.after = h.prev
              /\ (SrsSigValid(h.srs) /\ ~Trips(h.prev, h.srs)) =>
                    /\ h.resp.status = 200
                    /\ h.resp.body = "ok"
                    /\ h.after = <<h.srs>>
    /\ SlotIsLastAfter

\* A snapshot of another log_len and another root replaced the slot, and a
\* snapshot with a bad signature then left it there.
C13_Witness ==
    /\ Len(ghist) = 3
    /\ ghist[1].resp.status = 200
    /\ ghist[2].resp.status = 200
    /\ ghist[1].srs.msg.epoch = ghist[2].srs.msg.epoch
    /\ ghist[1].srs.msg.log_len # ghist[2].srs.msg.log_len
    /\ ghist[1].srs.msg.merkle_root # ghist[2].srs.msg.merkle_root
    /\ ghist[3].resp.status = 400
    /\ last = <<ghist[2].srs>>
    /\ \A t \in Threads : gpc[t] = "idle"

----------------------------------------------------------------------------
(* Properties of merkle_root, under SpecMerkle *)

\* The reference construction of section 4.2, read top-down: the number of
\* nodes of level l over n leaves, and node i of level l, where a pair that
\* reaches past the end of an odd level takes that level's last node twice.
RECURSIVE RefCount(_, _)
RefCount(n, l) == IF l = 0 THEN n ELSE (RefCount(n, l - 1) + 1) \div 2

RECURSIVE RefHeight(_, _)
RefHeight(n, l) == IF RefCount(n, l) = 1 THEN l ELSE RefHeight(n, l + 1)

RECURSIVE RefNode(_, _, _)
RefNode(L, l, i) ==
    IF l = 0 THEN L[i]
    ELSE LET c == RefCount(Len(L), l - 1)
             right == IF 2 * i <= c THEN 2 * i ELSE c
         IN  sha256(RefNode(L, l - 1, 2 * i - 1) \o RefNode(L, l - 1, right))

MerkleRef(L) ==
    IF Len(L) = 0 THEN sha256(<<>>) ELSE RefNode(L, RefHeight(Len(L), 0), 1)

\* C18: merkle_root is the reference construction on every leaf sequence: no
\* leaves give H(""); one leaf is the root; otherwise every level of odd
\* length has its last node duplicated and every pair (a, b) becomes
\* H(a || b), left to right, until one node remains.
C18_MerkleReference ==
    /\ m_root = MerkleRef(m_leaves)
    /\ Len(m_leaves) = 0 => m_root = sha256(<<>>)
    /\ Len(m_leaves) = 1 => m_root = m_leaves[1]
    /\ Len(m_leaves) = 2 => m_root = sha256(m_leaves[1] \o m_leaves[2])
    /\ Len(m_leaves) = 3 =>
          m_root = sha256(sha256(m_leaves[1] \o m_leaves[2])
                            \o sha256(m_leaves[3] \o m_leaves[3]))

\* Five leaves: levels of five and of three nodes are odd.
C18_Witness ==
    /\ Len(m_leaves) = 5
    /\ m_leaves[4] # m_leaves[5]
    /\ m_leaves[1] # m_leaves[2]
    /\ m_root = MerkleRef(m_leaves)

\* C19 as stated: for every leaf sequence L and every leaf x, the root of L
\* followed by x differs from the root of L.
C19_AppendChangesRoot ==
    Len(m_leaves) >= 1 => m_root # m_prev

\* C19: merkle_root's result is determined by the leaf sequence alone; the
\* root of L followed by x differs from the root of L whenever x is not the
\* last leaf of L and, for the empty L, x is not H("").
C19_AppendChangesRootUnlessRepeat ==
    /\ m_root = merkle_root(m_leaves)
    /\ Len(m_leaves) >= 1 =>
          m_prev = merkle_root(SubSeq(m_leaves, 1, Len(m_leaves) - 1))
    /\ (Len(m_leaves) = 1 /\ m_leaves[1] # sha256(<<>>)) => m_root # m_prev
    /\ (Len(m_leaves) >= 2 /\ m_leaves[Len(m_leaves)] # m_leaves[Len(m_leaves) - 1]) =>
          m_root # m_prev

\* A fourth leaf, different from the third, was appended to three leaves.
C19_Witness ==
    /\ Len(m_leaves) = 4
    /\ m_leaves[4] # m_leaves[3]
    /\ m_root # m_prev

----------------------------------------------------------------------------
(* Properties of apply_prrs applied twice, under SpecReapply *)

\* C20: for any party state and any list of records, applying the list with
\* apply_prrs a second time leaves the roster as the first application left
\* it.
C20_RosterIdempotent ==
    r_phase = 2 =>
        /\ st.roster = r_first.roster
        /\ st = r_first

\* A list with two records of party 1, the later seq first, was applied twice
\* to a state that held party 2 and a lower seq of party 1.
C20_Witness ==
    /\ r_phase = 2
    /\ Len(r_list) = 2
    /\ r_list[1].msg.party_id = 1
    /\ r_list[2].msg.party_id = 1
    /\ r_list[1].msg.seq > r_list[2].msg.seq
    /\ r_list[2].msg.seq > 0
    /\ 2 \in DOMAIN st.roster
    /\ st.roster[1].seq = r_list[1].msg.seq

----------------------------------------------------------------------------
(* Properties of the party commands, under SpecParty *)

C25_NextSeqPersisted ==
    (cpc = "none" /\ 1 \in DOMAIN last_seq) =>
        /\ file # <<>>
        /\ file[1].epoch = epoch
        /\ file[1].party_id = 1
        /\ file[1].next_seq > last_seq[1]

\* C26: when the watchtower has rejected the party's registration for a
\* non-increasing seq, the client has advanced its seq: the next attempt
\* uses a seq greater than the rejected one.
C26_AdvancesAfterRejection ==
    (cpc = "none" /\ reg_out.result = "NonMonotonicSeq") =>
        load_or_init(file, epoch, 1).next_seq > reg_out.seq

\* C28: every snapshot a party stores as current_srs after a successful
\* sync has msg.epoch equal to the party state's epoch, and every roster
\* entry comes from a record whose msg.epoch equals the party state's epoch.
C28_EpochOfParty ==
    (cpc = "save" /\ st.current_srs # <<>>) =>
        /\ st.current_srs[1].msg.epoch = st.epoch
        /\ \A p \in DOMAIN st.roster :
              \E i \in 1..Len(log) :
                  /\ log[i].msg.party_id = p
                  /\ log[i].msg.seq = st.roster[p].seq
                  /\ log[i].msg.epoch = st.epoch

\* C29: in every party state the register, sync and run commands write to
\* the state file, current_srs is a snapshot that passed verification
\* against the fetched log in that command and last_log_len is its log_len;
\* the snapshot register_self stored from the register response is not
\* written unless a verified one has replaced it.
C29_PersistedVerified ==
    [][file' # file =>
          /\ file'[1].current_srs # <<>>
          /\ file'[1].current_srs[1] \in verified
          /\ stored[2].by = "sync"
          /\ file'[1].last_log_len = file'[1].current_srs[1].msg.log_len
          /\ verify_snapshot_and_log(PkW, file'[1].current_srs[1],
                                     SubSeq(log, 1, file'[1].last_log_len)).err = "ok"]_vars

\* The state file of a register command: the register response of log_len
\* 1 was replaced by the verified snapshot of log_len 2 before the save.
C29_Witness ==
    /\ file # <<>>
    /\ file[1].next_seq = 2
    /\ file[1].last_log_len = 2
    /\ file[1].current_srs # <<>>
    /\ file[1].current_srs[1].msg.log_len = 2
    /\ stored = <<[len |-> 1, by |-> "register"], [len |-> 2, by |-> "sync"]>>
    /\ cpc = "none"

----------------------------------------------------------------------------
(* Properties of load_or_init, under SpecLoad *)

\* C22: load_or_init returns the persisted state unchanged when its epoch
\* and party_id both equal the requested ones, and otherwise (no file, or a
\* different epoch or party_id) a fresh state with next_seq = 1, no
\* current_srs, last_log_len = 0 and an empty roster.
C22_LoadOrInit ==
    cpc = "loaded" =>
        IF file # <<>> /\ file[1].epoch = cmd.epoch /\ file[1].party_id = cmd.party_id
        THEN st = file[1]
        ELSE /\ st.epoch = cmd.epoch
             /\ st.party_id = cmd.party_id
             /\ st.next_seq = 1
             /\ st.current_srs = <<>>
             /\ st.last_log_len = 0
             /\ DOMAIN st.roster = {}

\* A state file saved for the requested epoch under another party id, with
\* a snapshot, a roster and an advanced next_seq, was loaded.
C22_Witness ==
    /\ cpc = "loaded"
    /\ file # <<>>
    /\ file[1].epoch = cmd.epoch
    /\ file[1].party_id # cmd.party_id
    /\ file[1].next_seq > 1
    /\ file[1].current_srs # <<>>
    /\ DOMAIN file[1].roster # {}
    /\ st.next_seq = 1

----------------------------------------------------------------------------
(* Properties of the verifier's order of checks, under SpecVerify *)

\* The entries of the candidate list whose signed content does not carry a
\* valid signature under their own key.
AlteredEntries == {i \in 1..Len(f_entries) : ~SigValidUnderOwnKey(f_entries[i])}

\* The log prefix the snapshot under verification commits to.
Committed == SubSeq(log, 1, f_srs.msg.log_len)

\* C23: the verifier applies its checks in the order watchtower signature,
\* length, per-entry key and signature in log order, Merkle root, and reports
\* the first that fails: a list with altered entries fails at the party
\* signature check of the lowest altered entry, and a list of the right
\* length whose entries are all validly self-signed but differ from the
\* committed ones fails at the root.
C23_CheckOrder ==
    LET sig_w == verify_struct(PkW, enc_snapshot(f_srs.msg), f_srs.sig_watchtower)
        len_ok == Len(f_entries) = f_srs.msg.log_len
    IN  v_out.err # "none" =>
          /\ ~sig_w => v_out.err = "BadWatchtowerSig"
          /\ (sig_w /\ ~len_ok) => v_out.err = "LengthMismatch"
          /\ (sig_w /\ len_ok /\ AlteredEntries # {}) =>
                /\ v_out.err \in {"BadKey", "BadPartySig"}
                /\ v_out.at \in AlteredEntries
                /\ \A j \in AlteredEntries : v_out.at <= j
          /\ (sig_w /\ len_ok /\ AlteredEntries = {} /\ f_entries # Committed) =>
                v_out.err = "RootMismatch"
          /\ (sig_w /\ len_ok /\ AlteredEntries = {} /\ f_entries = Committed) =>
                v_out.err = "ok"

\* A list of three entries under a valid snapshot, the first as committed,
\* the second and third altered under their old signatures, failed at the
\* second.
C23_Witness ==
    /\ v_out.err = "BadPartySig"
    /\ v_out.at = 2
    /\ AlteredEntries = {2, 3}
    /\ f_entries[1] = log[1]
    /\ f_entries # Committed
    /\ f_srs = snapshot(epoch, log)

----------------------------------------------------------------------------
(* Properties of the runner loop, under SpecRun *)

\* A tick of the loop has done the probes of a successful sync.
TickProbed == cmd.loop /\ (cpc = "save" \/ (cpc = "sleep" /\ sync_err = "ok"))

\* A tick of the loop has ended with a failed sync.
TickFailed == cmd.loop /\ cpc = "sleep" /\ sync_err # "ok"

\* C27 on the states of the loop: a tick whose sync failed has made no probe
\* and left the connected set alone; a tick whose sync succeeded has probed
\* each roster peer other than the party that was not connected exactly
\* once and no other peer; the connected set holds roster peers only.
C27_TickInvariant ==
    /\ TickFailed =>
          /\ \A p \in PeerIds : probed[p] = 0
          /\ connected = conn0
    /\ TickProbed =>
          /\ \A p \in PeerIds :
                probed[p] = IF p \in RosterPeers(st) \ conn0 THEN 1 ELSE 0
          /\ st.party_id \notin connected
    /\ conn0 \subseteq connected

\* C27 on the steps of the loop: a failed sync does not end the loop; a
\* failed probe leaves the connected set unchanged and a successful one adds
\* the peer; the connected set only grows.
C27_TickStep ==
    /\ (cmd.loop /\ cpc \in {"snapshot", "entries", "verify"}) =>
          (cmd' = cmd /\ cpc' \in {"snapshot", "entries", "verify", "probe", "sleep"})
    /\ \A p \in PeerIds :
          (cmd.loop /\ probed'[p] = probed[p] + 1) =>
              connected' = IF p \in up THEN connected \cup {p} ELSE connected
    /\ (cmd.loop /\ cmd'.loop) => connected \subseteq connected'

\* C27: in the runner loop a failed sync never ends the loop and makes no
\* probe in its tick; a successful sync is followed by exactly one probe of
\* each roster peer other than the party not yet connected; a failed probe
\* changes nothing and the peer is probed again on the next successful
\* tick, a successful one adds the peer, the connected set only grows; so a
\* roster peer whose probes eventually keep succeeding is eventually marked
\* connected provided syncs keep succeeding.
C27_RunnerLoop ==
    /\ []C27_TickInvariant
    /\ [][C27_TickStep]_vars
    /\ \A p \in PeerIds :
          ([]<>(cmd.loop /\ cpc = "probe" /\ p \in RosterPeers(st)) /\ <>[](p \in up))
              => <>(p \in connected)

\* A tick made its one probe of each of the two peers; party 2 was down and
\* stays unconnected, party 3 was connected by it.
C27_Witness ==
    /\ cmd.loop
    /\ cpc = "save"
    /\ conn0 = {}
    /\ probed[2] = 1
    /\ probed[3] = 1
    /\ connected = {3}
    /\ up = {3}

====
